---- MODULE Spec2Model ----
(***************************************************************************)
(* A model of the tic-tac-toe program of src/Nim.cpp: the play loop of     *)
(* main and the mutually recursive search FindBestMove / EvaluatePosition. *)
(* The game adapter (NewGame, MakeMove, RetractMove, GameIsOver, ...) is   *)
(* only declared in the source file; it is modelled from the               *)
(* specification's description of it.                                      *)
(***************************************************************************)
EXTENDS Integers, Sequences, FiniteSets, TLC

(***************************************************************************)
(* Rating constants, lines 26-28.                                          *)
(***************************************************************************)
WINNING_POSITION == 1000

NEUTRAL_POSITION == 0

LOSING_POSITION == -WINNING_POSITION

(* The depth at which the search stops recursing, line 74. *)
MAX_DEPTH == 10000

(* playerT, lines 35-37. *)
playerT == {"Human", "Computer"}

(* The player who moves first, line 81. *)
FIRST_PLAYER == "Computer"

(* The number of squares of the board: the ply count of a full board. *)
BoardCapacity == 9

(* moveT, line 47: the number of a square, row-major. *)
Squares == 1..BoardCapacity

(* The three characters a cell of Grid<char> board may hold, lines 55, 62. *)
Marks == {"X", "O", " "}

(* stateT, lines 61-65. *)
stateT == [board : [Squares -> Marks], whoseTurn : playerT, turnsTaken : 0..BoardCapacity]

(***************************************************************************)
(* The game adapter.                                                       *)
(***************************************************************************)

(* Opponent, line 116. *)
Opponent(player) == IF player = "Human" THEN "Computer" ELSE "Human"

(* PlayerMark, line 96: 'X' is the computer, 'O' the human. *)
PlayerMark(player) == IF player = "Computer" THEN "X" ELSE "O"

(* WhoseTurn, line 114. *)
WhoseTurn(state) == state.whoseTurn

(* NewGame, line 90: the empty board, the first player to move. *)
NewGame == [board |-> [s \in Squares |-> " "], whoseTurn |-> FIRST_PLAYER, turnsTaken |-> 0]

(* The eight lines CheckForWin scans with CheckLine: rows, columns, diagonals. *)
WinLines == { <<1, 2, 3>>, <<4, 5, 6>>, <<7, 8, 9>>,
              <<1, 4, 7>>, <<2, 5, 8>>, <<3, 6, 9>>,
              <<1, 5, 9>>, <<3, 5, 7>> }

(* CheckLine, lines 124-125: three cells of one line all hold mark. *)
CheckLine(board, mark, line) == \A k \in 1..3 : board[line[k]] = mark

(* CheckForWin(board, mark), line 122. *)
CheckForWinMark(board, mark) == \E line \in WinLines : CheckLine(board, mark, line)

(* CheckForWin(state, player), line 120. *)
CheckForWin(state, player) == CheckForWinMark(state.board, PlayerMark(player))

(* GameIsOver as it would be without the test of a full board. *)
GameIsOver_WinsOnly(state) ==
    \/ CheckForWin(state, state.whoseTurn)
    \/ CheckForWin(state, Opponent(state.whoseTurn))

(* GameIsOver, line 110: a three-in-a-row of either player, or a full board. *)
GameIsOver(state) ==
    \/ state.turnsTaken = BoardCapacity
    \/ CheckForWin(state, state.whoseTurn)
    \/ CheckForWin(state, Opponent(state.whoseTurn))

(* EvaluateStaticPosition, line 118: from the side to move's perspective. *)
EvaluateStaticPosition(state) ==
    IF CheckForWin(state, state.whoseTurn) THEN WINNING_POSITION
    ELSE IF CheckForWin(state, Opponent(state.whoseTurn)) THEN LOSING_POSITION
    ELSE NEUTRAL_POSITION

(* MoveIsLegal, line 104. *)
MoveIsLegal(move, state) == move \in Squares /\ state.board[move] = " "

(* GenerateMoveList, line 102: the empty squares in ascending order. *)
GenerateMoveList(state) ==
    SelectSeq([s \in Squares |-> s], LAMBDA m : MoveIsLegal(m, state))

(* MakeMove as it would be without passing the turn. *)
MakeMove_KeepsTurn(state, move) ==
    [board |-> [state.board EXCEPT ![move] = PlayerMark(state.whoseTurn)],
     whoseTurn |-> state.whoseTurn,
     turnsTaken |-> state.turnsTaken + 1]

(* MakeMove, line 106: mark the cell, count the ply, pass the turn. *)
MakeMove(state, move) ==
    [board |-> [state.board EXCEPT ![move] = PlayerMark(state.whoseTurn)],
     whoseTurn |-> Opponent(state.whoseTurn),
     turnsTaken |-> state.turnsTaken + 1]

(* RetractMove as it would be with the ply count left alone. *)
RetractMove_KeepsCount(state, move) ==
    [board |-> [state.board EXCEPT ![move] = " "],
     whoseTurn |-> Opponent(state.whoseTurn),
     turnsTaken |-> state.turnsTaken]

(* RetractMove, line 108: clear the cell, uncount the ply, pass the turn back. *)
RetractMove(state, move) ==
    [board |-> [state.board EXCEPT ![move] = " "],
     whoseTurn |-> Opponent(state.whoseTurn),
     turnsTaken |-> state.turnsTaken - 1]

(***************************************************************************)
(* The search, lines 171-207.  An activation of FindBestMove is a record   *)
(* of its locals and of the point it has reached (at): "loop" at the loop  *)
(* test, "made" after MakeMove, "wait" while EvaluatePosition searches,    *)
(* "rated" when curRating is set.                                          *)
(***************************************************************************)

(* The value of moveT bestMove before the loop assigns it, line 176. *)
Unassigned == 0

(* EnterFindBestMove as it would be with the minimum started at the wrong *)
(* extreme: the loop never runs and bestMove is never assigned.          *)
EnterFindBestMove_StartsAtLoss(st, depth) ==
    [state |-> st, depth |-> depth, moveList |-> GenerateMoveList(st), i |-> 0,
     bestMove |-> Unassigned, minRating |-> LOSING_POSITION,
     move |-> Unassigned, curRating |-> NEUTRAL_POSITION, at |-> "loop"]

(* The locals of FindBestMove on entry to its loop, lines 171-178: state is *)
(* the by-value copy of the caller's argument.                             *)
EnterFindBestMove(st, depth) ==
    [state |-> st, depth |-> depth, moveList |-> GenerateMoveList(st), i |-> 0,
     bestMove |-> Unassigned, minRating |-> WINNING_POSITION + 1,
     move |-> Unassigned, curRating |-> NEUTRAL_POSITION, at |-> "loop"]

(* The loop condition as it would be if it stopped one move short. *)
LoopContinues_OffByOne(f) == f.i + 1 < Len(f.moveList) /\ f.minRating # LOSING_POSITION

(* The loop condition as it would be if it stopped at the first move that *)
(* does not lose.                                                         *)
LoopContinues_StopsAtNeutral(f) == f.i < Len(f.moveList) /\ f.minRating > NEUTRAL_POSITION

(* The loop condition of line 178. *)
LoopContinues(f) == f.i < Len(f.moveList) /\ f.minRating # LOSING_POSITION

(* TryMove as it would be without the call of MakeMove. *)
TryMove_NoMake(f) ==
    [f EXCEPT !.move = f.moveList[f.i + 1], !.at = "made"]

(* Lines 179-180: take the next move of the list and make it on the copy. *)
TryMove(f) ==
    [f EXCEPT !.move = f.moveList[f.i + 1],
              !.state = MakeMove(f.state, f.moveList[f.i + 1]),
              !.at = "made"]

(* Line 181, when EvaluatePosition has returned r. *)
Rated(f, r) == [f EXCEPT !.curRating = r, !.at = "rated"]

(* KeepBest as it would be with <= for <: the last of equal moves is kept. *)
KeepBest_LastBest(f) ==
    IF f.curRating <= f.minRating
    THEN [f EXCEPT !.bestMove = f.move, !.minRating = f.curRating]
    ELSE f

(* Lines 182-185: keep the move when its rating is below the minimum so far. *)
KeepBest(f) ==
    IF f.curRating < f.minRating
    THEN [f EXCEPT !.bestMove = f.move, !.minRating = f.curRating]
    ELSE f

(* FinishMove as it would be without the call of RetractMove. *)
FinishMove_NoRetract(f) ==
    [KeepBest(f) EXCEPT !.i = f.i + 1,
                        !.move = Unassigned,
                        !.curRating = NEUTRAL_POSITION,
                        !.at = "loop"]

(* Lines 182-187: compare, retract, advance to the next move. *)
FinishMove(f) ==
    [KeepBest(f) EXCEPT !.state = RetractMove(f.state, f.move),
                        !.i = f.i + 1,
                        !.move = Unassigned,
                        !.curRating = NEUTRAL_POSITION,
                        !.at = "loop"]

(* The rating as it would be stored without the negation. *)
ReturnedRating_NotNegated(f) == f.minRating

(* Line 188: the rating stored through the reference parameter. *)
ReturnedRating(f) == -f.minRating

(* The test of line 202 as it would be with the cutoff one ply below the root. *)
IsLeaf_CutsAtOnce(st, depth) == GameIsOver(st) \/ depth >= 1

(* The test of line 202: the position is rated without searching. *)
IsLeaf(st, depth) == GameIsOver(st) \/ depth >= MAX_DEPTH

RECURSIVE EvaluatePosition(_, _)
RECURSIVE FindBestMoveLoop(_)

(* The for loop of FindBestMove, lines 178-187, run to its end from the *)
(* activation f at the loop test.                                        *)
FindBestMoveLoop(f) ==
    IF LoopContinues(f)
    THEN LET made == TryMove(f)
         IN  FindBestMoveLoop(
                 FinishMove(Rated(made, EvaluatePosition(made.state, made.depth + 1))))
    ELSE f

(* FindBestMove, lines 171-190: the move returned, the rating stored       *)
(* through the reference parameter, and the by-value copy of the position  *)
(* as the function leaves it.                                              *)
FindBestMove(st, depth) ==
    LET end == FindBestMoveLoop(EnterFindBestMove(st, depth))
    IN  [move |-> end.bestMove, rating |-> ReturnedRating(end), state |-> end.state]

(* EvaluatePosition, lines 200-207. *)
EvaluatePosition(st, depth) ==
    IF IsLeaf(st, depth)
    THEN EvaluateStaticPosition(st)
    ELSE FindBestMove(st, depth).rating

(* ChooseComputerMove, line 100: the move of FindBestMove at depth 0. *)
ChooseComputerMove(st) == FindBestMove(st, 0).move

(***************************************************************************)
(* The program as a state machine: main's locals, and the activations of   *)
(* FindBestMove.                                                           *)
(***************************************************************************)
VARIABLES
    state,   \* main's stateT state, line 141
    move,    \* main's moveT move, line 142
    pc,      \* where main is: "play", "search", "chosen" or "done"
    stack,   \* the activations of FindBestMove, the innermost last
    probe    \* what a call of the search functions on state returned

vars == <<state, move, pc, stack, probe>>

(* The values an int that was never assigned may hold when it is read. *)
IndeterminateMoves == 0..(BoardCapacity + 1)

(* The moves a returned bestMove may be: the one assigned, or any int. *)
ReturnedMoves(bestMove) ==
    IF bestMove = Unassigned THEN IndeterminateMoves ELSE {bestMove}

Top == stack[Len(stack)]

SetTop(f) == [stack EXCEPT ![Len(stack)] = f]

None == [kind |-> "none"]

Init ==
    /\ state = NewGame
    /\ move = Unassigned
    /\ pc = "play"
    /\ stack = << >>
    /\ probe = None

(* Lines 143-150, Computer's turn: ChooseComputerMove calls FindBestMove *)
(* on a copy of state at depth 0.                                         *)
ComputerTurn ==
    /\ pc = "play"
    /\ ~GameIsOver(state)
    /\ WhoseTurn(state) = "Computer"
    /\ stack' = <<EnterFindBestMove(state, 0)>>
    /\ pc' = "search"
    /\ UNCHANGED <<state, move, probe>>

(* Lines 143-148, Human's turn: GetUserMove returns a legal move. *)
HumanTurn ==
    /\ pc = "play"
    /\ ~GameIsOver(state)
    /\ WhoseTurn(state) = "Human"
    /\ \E m \in Squares :
        /\ MoveIsLegal(m, state)
        /\ move' = m
    /\ pc' = "chosen"
    /\ UNCHANGED <<state, stack, probe>>

(* Line 154. *)
PlayMove ==
    /\ pc = "chosen"
    /\ state' = MakeMove(state, move)
    /\ pc' = "play"
    /\ UNCHANGED <<move, stack, probe>>

(* Lines 143, 156: the loop ends and the result is announced. *)
Announce ==
    /\ pc = "play"
    /\ GameIsOver(state)
    /\ pc' = "done"
    /\ UNCHANGED <<state, move, stack, probe>>

(* Lines 178-180: the loop goes on and the next move is made. *)
FBM_MakeMove ==
    /\ pc = "search"
    /\ Top.at = "loop"
    /\ LoopContinues(Top)
    /\ stack' = SetTop(TryMove(Top))
    /\ UNCHANGED <<state, move, pc, probe>>

(* Lines 181, 202-203: EvaluatePosition returns the static rating. *)
EP_Static ==
    /\ pc = "search"
    /\ Top.at = "made"
    /\ IsLeaf(Top.state, Top.depth + 1)
    /\ stack' = SetTop(Rated(Top, EvaluateStaticPosition(Top.state)))
    /\ UNCHANGED <<state, move, pc, probe>>

(* Lines 181, 205: EvaluatePosition calls FindBestMove on a copy. *)
EP_Search ==
    /\ pc = "search"
    /\ Top.at = "made"
    /\ ~IsLeaf(Top.state, Top.depth + 1)
    /\ stack' = Append(SetTop([Top EXCEPT !.at = "wait"]),
                       EnterFindBestMove(Top.state, Top.depth + 1))
    /\ UNCHANGED <<state, move, pc, probe>>

(* Lines 182-187. *)
FBM_Retract ==
    /\ pc = "search"
    /\ Top.at = "rated"
    /\ stack' = SetTop(FinishMove(Top))
    /\ UNCHANGED <<state, move, pc, probe>>

(* Lines 188-189, 206: the loop has ended; the rating goes to the caller's *)
(* curRating through EvaluatePosition.                                     *)
FBM_ReturnRating ==
    /\ pc = "search"
    /\ Len(stack) > 1
    /\ Top.at = "loop"
    /\ ~LoopContinues(Top)
    /\ stack' = [SubSeq(stack, 1, Len(stack) - 1) EXCEPT
                    ![Len(stack) - 1] = Rated(stack[Len(stack) - 1], ReturnedRating(Top))]
    /\ UNCHANGED <<state, move, pc, probe>>

(* Lines 188-189, 150: the outermost call returns bestMove to main. *)
FBM_ReturnMove ==
    /\ pc = "search"
    /\ Len(stack) = 1
    /\ Top.at = "loop"
    /\ ~LoopContinues(Top)
    /\ \E m \in ReturnedMoves(Top.bestMove) : move' = m
    /\ stack' = << >>
    /\ pc' = "chosen"
    /\ UNCHANGED <<state, probe>>

Search ==
    \/ FBM_MakeMove
    \/ EP_Static
    \/ EP_Search
    \/ FBM_Retract
    \/ FBM_ReturnRating
    \/ FBM_ReturnMove

Next == ComputerTurn \/ HumanTurn \/ PlayMove \/ Announce \/ Search

Spec == Init /\ [][Next]_vars

(* The program runs on: main and the search take their next step, and     *)
(* GetUserMove returns when Human is asked for a move.                     *)
SpecFair == Spec /\ WF_vars(Next)

(***************************************************************************)
(* Self-play: the harness of scenario S6 asks ChooseComputerMove for the   *)
(* move of whichever side is to move.                                      *)
(***************************************************************************)
HarnessTurn ==
    /\ pc = "play"
    /\ ~GameIsOver(state)
    /\ stack' = <<EnterFindBestMove(state, 0)>>
    /\ pc' = "search"
    /\ UNCHANGED <<state, move, probe>>

NextSelfPlay == HarnessTurn \/ PlayMove \/ Announce \/ Search

SpecSelfPlay == Init /\ [][NextSelfPlay]_vars

(***************************************************************************)
(* Legal play: every position that legal moves reach from a new game, and  *)
(* the search functions called on it.                                      *)
(***************************************************************************)

(* The largest depth argument, short of the cutoff, the calls are made at. *)
MaxProbeDepth == 1

(* The depth arguments: the first depths, and the last one below MAX_DEPTH. *)
ProbeDepths == (0..MaxProbeDepth) \cup {MAX_DEPTH - 1}

(* The legal moves of a position, as a set. *)
LegalMoves(st) == {m \in Squares : MoveIsLegal(m, st)}

(* A legal move by the side to move, whoever it is. *)
PlayAnyMove ==
    /\ pc = "play"
    /\ ~GameIsOver(state)
    /\ \E m \in LegalMoves(state) : state' = MakeMove(state, m)
    /\ probe' = None
    /\ UNCHANGED <<move, pc, stack>>

(* EvaluatePosition(state, depth) and, off a terminal position,            *)
(* FindBestMove(state, depth) and EvaluatePosition(child, depth + 1) of    *)
(* the position each legal move leads to.                                  *)
Probe ==
    /\ pc = "play"
    /\ probe = None
    /\ \E d \in ProbeDepths :
        probe' = IF GameIsOver(state)
                 THEN [kind |-> "static", depth |-> d,
                       rating |-> EvaluatePosition(state, d)]
                 ELSE [kind |-> "search", depth |-> d,
                       rating |-> EvaluatePosition(state, d),
                       found |-> FindBestMove(state, d),
                       children |-> [m \in LegalMoves(state) |->
                                        EvaluatePosition(MakeMove(state, m), d + 1)]]
    /\ UNCHANGED <<state, move, pc, stack>>

NextLegalPlay == PlayAnyMove \/ Probe

SpecLegalPlay == Init /\ [][NextLegalPlay]_vars

(***************************************************************************)
(* Properties.                                                             *)
(***************************************************************************)

(* The least element of a non-empty set of integers. *)
MinOver(S) == CHOOSE x \in S : \A y \in S : x <= y

(* The ratings EvaluatePosition gave the positions the legal moves lead to. *)
ChildRatings == {probe.children[m] : m \in DOMAIN probe.children}

(* The legal moves that complete a three-in-a-row of the side to move. *)
ImmediateWins(st) ==
    {m \in LegalMoves(st) : CheckForWin(MakeMove(st, m), st.whoseTurn)}

(* The squares on which the opponent, were it to move, would complete a *)
(* three-in-a-row.                                                      *)
OpponentThreats(st) ==
    {m \in LegalMoves(st) :
        CheckForWinMark([st.board EXCEPT ![m] = PlayerMark(Opponent(st.whoseTurn))],
                        PlayerMark(Opponent(st.whoseTurn)))}

(* The position activation k of FindBestMove was called on: main's state *)
(* for the outermost, the caller's working copy for the others.          *)
EntryPosition(k) == IF k = 1 THEN state ELSE stack[k - 1].state

(* C1: off a terminal position and below MAX_DEPTH, EvaluatePosition(P, d) *)
(* is the negation of the least EvaluatePosition(P after M, d + 1) over    *)
(* the legal moves M of P.                                                 *)
C1_NegamaxSymmetry ==
    probe.kind = "search" => probe.rating = -MinOver(ChildRatings)

(* C1's case: a won position in which some move throws the win away. *)
C1_Witness ==
    /\ probe.kind = "search"
    /\ probe.depth = 0
    /\ probe.rating = WINNING_POSITION
    /\ -MinOver(ChildRatings) = WINNING_POSITION
    /\ WINNING_POSITION \in ChildRatings

(* C2: FindBestMove returns a legal move; its rating is the negation of    *)
(* EvaluatePosition of the position that move leads to, and no legal move  *)
(* leads to a position whose negated rating is greater.                    *)
C2_BestMoveIsLegalAndBest ==
    probe.kind = "search" =>
        /\ probe.found.move \in LegalMoves(state)
        /\ probe.found.rating = -probe.children[probe.found.move]
        /\ \A m \in LegalMoves(state) : -probe.children[m] <= probe.found.rating

(* C2's case: the first legal move is strictly worse than the one returned. *)
C2_Witness ==
    /\ probe.kind = "search"
    /\ probe.found.move \in LegalMoves(state)
    /\ probe.found.rating = -probe.children[probe.found.move]
    /\ \E m \in LegalMoves(state) :
        m < probe.found.move /\ -probe.children[m] < probe.found.rating

(* C3: the search leaves the position as it found it.  Every activation of *)
(* FindBestMove holds, at its loop test (so at every iteration's start and *)
(* at return), the position it was called on; between MakeMove and         *)
(* RetractMove it holds that position with exactly the move under trial    *)
(* made; and no step of the search changes main's state.                   *)
C3_SearchLeavesPosition ==
    /\ [](\A k \in 1..Len(stack) :
            /\ stack[k].at = "loop" => stack[k].state = EntryPosition(k)
            /\ stack[k].at # "loop" =>
                /\ stack[k].state = MakeMove(EntryPosition(k), stack[k].move)
                /\ RetractMove(stack[k].state, stack[k].move) = EntryPosition(k))
    /\ [][pc = "search" => state' = state]_vars

(* C3's case: a loop that stops early, with moves left untried, holding *)
(* the position it was called on.                                       *)
C3_Witness ==
    /\ pc = "search"
    /\ Len(stack) >= 2
    /\ Top.at = "loop"
    /\ Top.minRating = LOSING_POSITION
    /\ Top.i >= 2
    /\ Top.i < Len(Top.moveList)
    /\ Top.state = EntryPosition(Len(stack))

(* C4: every rating the search produces lies in [LOSING_POSITION,          *)
(* WINNING_POSITION]: EvaluatePosition of every position of legal play,    *)
(* the rating FindBestMove stores, and the ratings of the positions one    *)
(* move on.                                                                *)
C4_RatingBounds ==
    LET InBounds(r) == LOSING_POSITION <= r /\ r <= WINNING_POSITION
    IN  /\ probe.kind # "none" => InBounds(probe.rating)
        /\ probe.kind = "search" =>
            /\ InBounds(probe.found.rating)
            /\ \A r \in ChildRatings : InBounds(r)

(* C4's case: a position with a single legal move, where the minimum is *)
(* set once from the sentinel.                                          *)
C4_Witness ==
    /\ probe.kind = "search"
    /\ probe.depth = 0
    /\ Cardinality(LegalMoves(state)) = 1
    /\ probe.found.rating = WINNING_POSITION

(* C5: on the empty board with the computer to move, EvaluatePosition at *)
(* depth 0 is NEUTRAL_POSITION.                                          *)
C5_EmptyBoardIsNeutral ==
    (state = NewGame /\ probe.kind # "none" /\ probe.depth = 0)
        => probe.rating = NEUTRAL_POSITION

(* C5's case: the empty board has been evaluated at depth 0. *)
C5_Witness ==
    /\ state = NewGame
    /\ state.whoseTurn = "Computer"
    /\ probe.kind = "search"
    /\ probe.depth = 0
    /\ probe.rating = NEUTRAL_POSITION

(* C6 as stated: where the side to move can complete a three-in-a-row on *)
(* this ply, ChooseComputerMove returns a move that does.                *)
C6_Original ==
    (probe.kind = "search" /\ probe.depth = 0 /\ ImmediateWins(state) # {})
        => probe.found.move \in ImmediateWins(state)

(* C6, amended: where the side to move can complete a three-in-a-row on    *)
(* this ply, ChooseComputerMove returns a move that wins by force: the     *)
(* rating is WINNING_POSITION, the position the move leads to is rated     *)
(* LOSING_POSITION, and the move comes no later in the move list than any  *)
(* move completing a three-in-a-row.                                       *)
C6_ForcedWinChosen ==
    (probe.kind = "search" /\ probe.depth = 0 /\ ImmediateWins(state) # {})
        => /\ probe.found.rating = WINNING_POSITION
           /\ probe.found.move \in LegalMoves(state)
           /\ probe.children[probe.found.move] = LOSING_POSITION
           /\ \A w \in ImmediateWins(state) : probe.found.move <= w

(* C6's case: scenario S3, X X . / O O . / . . . with the computer to move. *)
C6_Witness ==
    /\ probe.kind = "search"
    /\ probe.depth = 0
    /\ state.whoseTurn = "Computer"
    /\ {s \in Squares : state.board[s] = "X"} = {1, 2}
    /\ {s \in Squares : state.board[s] = "O"} = {4, 5}
    /\ ImmediateWins(state) = {3}
    /\ probe.found.move = 3
    /\ probe.found.rating = WINNING_POSITION

(* C7 as stated: where the opponent threatens a three-in-a-row on exactly *)
(* one square, ChooseComputerMove returns that square.                    *)
C7_Original ==
    (probe.kind = "search" /\ probe.depth = 0
        /\ Cardinality(OpponentThreats(state)) = 1)
        => probe.found.move \in OpponentThreats(state)

(* C7, amended: where the opponent threatens a three-in-a-row on exactly   *)
(* one square, the side to move cannot itself complete a three-in-a-row on *)
(* this ply, and the position is not a forced loss for it (the rating is   *)
(* at least NEUTRAL_POSITION), ChooseComputerMove returns that square.     *)
C7_BlockWhenItSaves ==
    (probe.kind = "search" /\ probe.depth = 0
        /\ Cardinality(OpponentThreats(state)) = 1
        /\ ImmediateWins(state) = {}
        /\ probe.found.rating >= NEUTRAL_POSITION)
        => probe.found.move \in OpponentThreats(state)

(* C7's case: a threat that is blocked by a move other than the first of *)
(* the move list.                                                        *)
C7_Witness ==
    /\ probe.kind = "search"
    /\ probe.depth = 0
    /\ Cardinality(OpponentThreats(state)) = 1
    /\ ImmediateWins(state) = {}
    /\ probe.found.rating = NEUTRAL_POSITION
    /\ probe.found.move \in OpponentThreats(state)
    /\ \E m \in LegalMoves(state) : m < probe.found.move

(* C8: the move FindBestMove returns is the first, in the order of the     *)
(* move list, of the moves leading to a position of the least rating; on   *)
(* the empty board ChooseComputerMove returns square 1.                    *)
C8_FirstBestMove ==
    /\ probe.kind = "search" =>
        probe.found.move =
            MinOver({m \in LegalMoves(state) : probe.children[m] = MinOver(ChildRatings)})
    /\ (probe.kind = "search" /\ probe.depth = 0 /\ state = NewGame)
        => probe.found.move = 1

(* C8's case: several moves are best, and a worse one comes before them. *)
C8_Witness ==
    /\ probe.kind = "search"
    /\ Cardinality({m \in LegalMoves(state) : probe.children[m] = MinOver(ChildRatings)}) >= 2
    /\ \E m \in LegalMoves(state) :
        m < probe.found.move /\ probe.children[m] > MinOver(ChildRatings)

(* C9: in self-play every move chosen is legal, and when the game is over  *)
(* nine moves have been made and neither player has a three-in-a-row.      *)
C9_SelfPlayDraw ==
    /\ pc = "chosen" => MoveIsLegal(move, state)
    /\ GameIsOver(state) =>
        /\ state.turnsTaken = BoardCapacity
        /\ ~CheckForWin(state, "Computer")
        /\ ~CheckForWin(state, "Human")

(* C9's case: the self-play game has ended, the board full. *)
C9_Witness ==
    /\ pc = "done"
    /\ GameIsOver(state)
    /\ \A s \in Squares : state.board[s] # " "

(* C10: from every position of legal play, MakeMove of a legal move and *)
(* then RetractMove of it give back the position, field for field.      *)
C10_ApplyRetractRoundTrip ==
    \A m \in LegalMoves(state) :
        LET back == RetractMove(MakeMove(state, m), m)
        IN  /\ \A s \in Squares : back.board[s] = state.board[s]
            /\ back.whoseTurn = state.whoseTurn
            /\ back.turnsTaken = state.turnsTaken
            /\ back = state

(* C10's case: a position in mid-game with moves to try, the human to move. *)
C10_Witness ==
    /\ state.turnsTaken = 5
    /\ state.whoseTurn = "Human"
    /\ ~GameIsOver(state)
    /\ \E m \in LegalMoves(state) :
        MakeMove(state, m) # state /\ RetractMove(MakeMove(state, m), m) = state

(* The positions the program holds: main's, and every activation's copy. *)
Positions == {state} \cup {stack[k].state : k \in 1..Len(stack)}

(* The number of cells of a board that hold a mark. *)
MarkedCells(board) == Cardinality({s \in Squares : board[s] # " "})

(* C11: in every position the program holds, in play and inside the search, *)
(* turnsTaken is the number of marked cells and the side to move is         *)
(* FIRST_PLAYER exactly when turnsTaken is even; every MakeMove (in main    *)
(* and in FindBestMove) passes the turn and adds one to turnsTaken, every   *)
(* RetractMove passes it back and takes one off, and no other step changes  *)
(* a position, so turnsTaken counts the moves made less the moves retracted.*)
C11_TurnAndPlyBookkeeping ==
    /\ [](\A p \in Positions :
            /\ p.turnsTaken = MarkedCells(p.board)
            /\ (p.whoseTurn = FIRST_PLAYER) <=> (p.turnsTaken % 2 = 0))
    /\ [][/\ state' # state =>
                /\ pc = "chosen"
                /\ state'.turnsTaken = state.turnsTaken + 1
                /\ state'.whoseTurn = Opponent(state.whoseTurn)
          /\ (pc = "search" /\ pc' = "search" /\ Len(stack') = Len(stack)) =>
                LET old == stack[Len(stack)]
                    new == stack'[Len(stack)]
                IN  /\ old.at = "loop" =>
                        /\ new.state.turnsTaken = old.state.turnsTaken + 1
                        /\ new.state.whoseTurn = Opponent(old.state.whoseTurn)
                    /\ old.at = "rated" =>
                        /\ new.state.turnsTaken = old.state.turnsTaken - 1
                        /\ new.state.whoseTurn = Opponent(old.state.whoseTurn)
                    /\ old.at \notin {"loop", "rated"} => new.state = old.state
          /\ (pc = "search" /\ pc' = "search" /\ Len(stack') > Len(stack)) =>
                stack'[Len(stack')].state = stack[Len(stack)].state
          /\ (pc = "search" /\ pc' = "search" /\ Len(stack') < Len(stack)) =>
                stack'[Len(stack')].state = stack[Len(stack')].state]_vars

(* C11's case: after two moves of real play, a search three moves deep. *)
C11_Witness ==
    /\ pc = "search"
    /\ state.turnsTaken = 2
    /\ Len(stack) = 3
    /\ Top.at = "made"
    /\ Top.state.turnsTaken = 5
    /\ MarkedCells(Top.state.board) = 5
    /\ Top.state.whoseTurn = "Human"

(* The outermost FindBestMove has ended its loop and is about to return. *)
RootReturns ==
    /\ pc = "search"
    /\ Len(stack) = 1
    /\ Top.at = "loop"
    /\ ~LoopContinues(Top)

(* C12: the move ChooseComputerMove hands to main, and the rating its     *)
(* FindBestMove stores, are functions of the position alone: whatever was *)
(* played and searched before, they are the values the search computes    *)
(* from that position.                                                    *)
C12_MoveDependsOnPositionOnly ==
    /\ RootReturns =>
        /\ Top.bestMove = FindBestMove(state, 0).move
        /\ ReturnedRating(Top) = FindBestMove(state, 0).rating
    /\ (pc = "chosen" /\ WhoseTurn(state) = "Computer") =>
        move = ChooseComputerMove(state)

(* C12's case: a move chosen in mid-game, after earlier searches and moves. *)
C12_Witness ==
    /\ pc = "chosen"
    /\ WhoseTurn(state) = "Computer"
    /\ state.turnsTaken = 4
    /\ move \in LegalMoves(state)
    /\ move = ChooseComputerMove(state)

(* The position with the computer to move and the given squares marked. *)
ComputerToMove(xs, os) ==
    [board |-> [s \in Squares |-> IF s \in xs THEN "X" ELSE IF s \in os THEN "O" ELSE " "],
     whoseTurn |-> "Computer",
     turnsTaken |-> Cardinality(xs) + Cardinality(os)]

(* C13: scenario S4.  With O on squares 1 and 2, X on 4 and 9 and the      *)
(* computer to move, ChooseComputerMove returns square 3 and the rating of *)
(* FindBestMove at depth 0 is at least NEUTRAL_POSITION.                   *)
C13_ScenarioS4 ==
    (state = ComputerToMove({4, 9}, {1, 2}) /\ probe.kind = "search" /\ probe.depth = 0)
        => /\ probe.found.move = 3
           /\ probe.found.rating >= NEUTRAL_POSITION

(* C13's case: the position of S4 is reached and searched at depth 0. *)
C13_Witness ==
    /\ state = ComputerToMove({4, 9}, {1, 2})
    /\ ~GameIsOver(state)
    /\ OpponentThreats(state) = {3}
    /\ probe.kind = "search"
    /\ probe.depth = 0
    /\ probe.found.move = 3

(* C14: scenario S2.  With X on square 1, O on square 5 and the computer *)
(* to move, every legal move leads to a position whose rating, negated,  *)
(* is NEUTRAL_POSITION, and ChooseComputerMove returns square 2.         *)
C14_ScenarioS2 ==
    (state = ComputerToMove({1}, {5}) /\ probe.kind = "search" /\ probe.depth = 0)
        => /\ \A m \in LegalMoves(state) : -probe.children[m] = NEUTRAL_POSITION
           /\ probe.found.move = 2

(* C14's case: the position of S2 is reached and searched at depth 0. *)
C14_Witness ==
    /\ state = ComputerToMove({1}, {5})
    /\ LegalMoves(state) = {2, 3, 4, 6, 7, 8, 9}
    /\ probe.kind = "search"
    /\ probe.depth = 0
    /\ DOMAIN probe.children = LegalMoves(state)
    /\ probe.found.move = 2

(***************************************************************************)
(* The search without its early exit: the loop of lines 178-187 with the   *)
(* condition i < nMoves alone, at every level of the recursion.            *)
(***************************************************************************)
RECURSIVE EvaluateEveryMove(_, _)
RECURSIVE EveryMoveLoop(_)

EveryMoveLoop(f) ==
    IF f.i < Len(f.moveList)
    THEN LET made == TryMove(f)
         IN  EveryMoveLoop(
                 FinishMove(Rated(made, EvaluateEveryMove(made.state, made.depth + 1))))
    ELSE f

FindBestOfEveryMove(st, depth) ==
    LET end == EveryMoveLoop(EnterFindBestMove(st, depth))
    IN  [move |-> end.bestMove, rating |-> ReturnedRating(end)]

EvaluateEveryMove(st, depth) ==
    IF IsLeaf(st, depth)
    THEN EvaluateStaticPosition(st)
    ELSE FindBestOfEveryMove(st, depth).rating

(* The depth arguments the two searches are compared at: the depth of     *)
(* ChooseComputerMove, and the last depth below the cutoff.                *)
ComparedDepths == {0, MAX_DEPTH - 1}

(* C15: on every position of legal play that is not over, FindBestMove     *)
(* with the early exit of line 178 returns the same move and stores the    *)
(* same rating as the search that tries every legal move at every level.   *)
C15_EarlyExitPreservesResult ==
    (probe.kind = "search" /\ probe.depth \in ComparedDepths) =>
        LET every == FindBestOfEveryMove(state, probe.depth)
        IN  /\ probe.found.move = every.move
            /\ probe.found.rating = every.rating

(* The early exit fires: the move found forces a win and legal moves after *)
(* it in the list were never tried.                                        *)
C15_Witness ==
    /\ probe.kind = "search"
    /\ probe.depth = 0
    /\ probe.found.rating = WINNING_POSITION
    /\ probe.children[probe.found.move] = LOSING_POSITION
    /\ \E m \in LegalMoves(state) : m > probe.found.move
    /\ probe.found.move = FindBestOfEveryMove(state, 0).move

(* C16: FindBestMove is only ever called, by ChooseComputerMove in the play *)
(* loop and by EvaluatePosition inside the search, on a position that is    *)
(* not over and has a legal move, so the branch of line 174 is never taken; *)
(* when its loop has ended bestMove has been assigned, and the move main    *)
(* receives from the search is a legal one.                                 *)
C16_NoMovesNeverHappens ==
    /\ \A k \in 1..Len(stack) :
           /\ Len(stack[k].moveList) > 0
           /\ ~GameIsOver(EntryPosition(k))
           /\ (stack[k].at = "loop" /\ ~LoopContinues(stack[k])) =>
                  /\ stack[k].bestMove # Unassigned
                  /\ stack[k].bestMove \in LegalMoves(stack[k].state)
    /\ (pc = "chosen" /\ WhoseTurn(state) = "Computer") => move \in LegalMoves(state)

(* A recursive call on a position with one empty square returns: its move  *)
(* list holds that square alone and the loop has assigned it to bestMove.  *)
C16_Witness ==
    /\ pc = "search"
    /\ Len(stack) > 1
    /\ Top.at = "loop"
    /\ ~LoopContinues(Top)
    /\ Top.state.turnsTaken = BoardCapacity - 1
    /\ ~GameIsOver(Top.state)
    /\ Len(Top.moveList) = 1
    /\ Top.bestMove = Top.moveList[1]

(* C17: in the play loop, with Computer moving first and taking each of its *)
(* moves from ChooseComputerMove, Human never has a three-in-a-row whatever *)
(* legal moves Human makes; a finished game is won by Computer or is a      *)
(* full board with no line.                                                *)
C17_ComputerNeverLoses ==
    /\ ~CheckForWin(state, "Human")
    /\ pc = "done" =>
           \/ CheckForWin(state, "Computer")
           \/ /\ state.turnsTaken = BoardCapacity
              /\ EvaluateStaticPosition(state) = NEUTRAL_POSITION

(* A game Human held to a draw: it is finished on a full board, Human made *)
(* four moves and neither side has a line.                                 *)
C17_Witness ==
    /\ pc = "done"
    /\ state.turnsTaken = BoardCapacity
    /\ Cardinality({s \in Squares : state.board[s] = PlayerMark("Human")}) = 4
    /\ ~CheckForWin(state, "Computer")
    /\ ~CheckForWin(state, "Human")

(* C18: in every position that legal moves reach from a new game, moves    *)
(* being made only while GameIsOver is false, and in every position an     *)
(* activation of the search holds, the side to move has no three-in-a-row  *)
(* and at most one player has one; so where the game is over               *)
(* EvaluateStaticPosition is LOSING_POSITION or NEUTRAL_POSITION, never    *)
(* WINNING_POSITION.                                                       *)
C18_MoverHasNoLine ==
    /\ \A p \in Positions :
           /\ ~CheckForWin(p, p.whoseTurn)
           /\ ~(CheckForWin(p, "Computer") /\ CheckForWin(p, "Human"))
           /\ GameIsOver(p) =>
                  EvaluateStaticPosition(p) \in {LOSING_POSITION, NEUTRAL_POSITION}
    /\ probe.kind = "static" => probe.rating \in {LOSING_POSITION, NEUTRAL_POSITION}

(* A game Human has just won: Human has a line, Computer, who is to move,  *)
(* has none, and the position is rated LOSING_POSITION.                    *)
C18_Witness ==
    /\ GameIsOver(state)
    /\ WhoseTurn(state) = "Computer"
    /\ CheckForWin(state, "Human")
    /\ ~CheckForWin(state, "Computer")
    /\ probe.kind = "static"
    /\ probe.rating = LOSING_POSITION

(* The empty squares of a position. *)
EmptySquares(st) == Cardinality(LegalMoves(st))

(* C19: in a search ChooseComputerMove starts at depth 0 on main's          *)
(* position, the depth of every call of FindBestMove and of                *)
(* EvaluatePosition is at most the number of empty squares of that         *)
(* position, which is at most BoardCapacity; the depth stays below         *)
(* MAX_DEPTH, every position EvaluatePosition rates statically is over,    *)
(* and the search returns a move to main.                                  *)
C19_BoundedDepth ==
    /\ [](pc = "search" =>
            /\ EmptySquares(state) <= BoardCapacity
            /\ \A k \in 1..Len(stack) :
                   /\ stack[k].depth = k - 1
                   /\ stack[k].depth <= EmptySquares(state)
            /\ Top.at = "made" =>
                   /\ Top.depth + 1 <= EmptySquares(state)
                   /\ Top.depth + 1 < MAX_DEPTH
                   /\ IsLeaf(Top.state, Top.depth + 1) => GameIsOver(Top.state))
    /\ (pc = "search" ~> pc = "chosen")

(* The search from the empty board calls EvaluatePosition at depth 9 on a  *)
(* full board.                                                             *)
C19_Witness ==
    /\ pc = "search"
    /\ state = NewGame
    /\ Len(stack) = BoardCapacity
    /\ Top.at = "made"
    /\ Top.depth + 1 = EmptySquares(state)
    /\ Top.state.turnsTaken = BoardCapacity
    /\ GameIsOver(Top.state)

(* C20: the play loop finishes.  From a new game, whatever legal moves      *)
(* Human makes, main's position changes only by MakeMove of one legal move *)
(* on a position that is not over, turnsTaken never exceeds BoardCapacity, *)
(* the loop is left with the game over, no move is made after that, and    *)
(* every run of the program reaches that end.                              *)
C20_PlayLoopFinishes ==
    /\ [](/\ state.turnsTaken <= BoardCapacity
          /\ pc = "chosen" => (~GameIsOver(state) /\ MoveIsLegal(move, state))
          /\ pc = "done" => GameIsOver(state))
    /\ [][/\ state' # state =>
                /\ pc = "chosen" /\ pc' = "play"
                /\ ~GameIsOver(state)
                /\ MoveIsLegal(move, state)
                /\ state' = MakeMove(state, move)
                /\ state'.turnsTaken = state.turnsTaken + 1
          /\ (pc = "chosen" /\ pc' = "play") => state' # state
          /\ GameIsOver(state) => (state' = state /\ pc' \in {"play", "done"})
          /\ pc = "done" => pc' = "done"]_vars
    /\ <>[](pc = "done" /\ GameIsOver(state))

(* The ninth move is about to be made: eight moves are on the board, the   *)
(* game is not over, and the move chosen is legal and ends it.             *)
C20_Witness ==
    /\ pc = "chosen"
    /\ state.turnsTaken = BoardCapacity - 1
    /\ ~GameIsOver(state)
    /\ MoveIsLegal(move, state)
    /\ GameIsOver(MakeMove(state, move))
    /\ MakeMove(state, move).turnsTaken = BoardCapacity

====
